---- MODULE Spec2Model ----
(***************************************************************************)
(* The request execution pipeline of the Esplora async client              *)
(* (src/src/async.rs): get_with_retry, the four response decoders with     *)
(* their optional variants, post_request_hex and the endpoints get_blocks, *)
(* get_height, get_tx and get_tx_no_opt.                                   *)
(*                                                                         *)
(* A call is a coroutine.  It gives up control only at the two awaits of   *)
(* the source, request.send().await and S::sleep(delay).await, so every    *)
(* action below runs the code from one await to the next.                  *)
(*                                                                         *)
(* Bytes are numbers 0..255, a body and a text are sequences of bytes.     *)
(* The generic decode target T is instantiated with a one-byte consensus   *)
(* value (binary and hex decoders) and a list of small numbers (JSON       *)
(* decoder): the codecs are collaborators of the client, not part of it.   *)
(***************************************************************************)
EXTENDS Integers, Sequences, FiniteSets, TLC

\* ------------------------------------------------------------------ bounds

\* Largest max_retries a client is built with.
MaxRetries == 3

\* ------------------------------------------------------- crate constants

\* crate::BASE_BACKOFF_MILLIS, the first delay in milliseconds (set in the
\* crate root; no property below depends on the value).
BASE_BACKOFF_MILLIS == 256

\* crate::RETRYABLE_ERROR_CODES (set in the crate root).
RETRYABLE_ERROR_CODES == {429, 500, 503}

\* ------------------------------------------------------------ input sets

\* The calls that may be in flight on the one client.
Calls == {"c1", "c2"}

\* The calls the sequential specification runs.
SeqCalls == {"c1"}

\* Private decoders and public endpoints a call may enter.
BaseOps == {"get_response", "get_response_hex", "get_response_json", "get_response_text"}
OptOps == {"get_opt_response", "get_opt_response_hex", "get_opt_response_json",
           "get_opt_response_text"}
\* Endpoints that take a txid.
TxOps == {"get_tx", "get_tx_no_opt"}
\* Read operations that take no argument.
NoArgOps == BaseOps \cup OptOps \cup {"get_height"}
GetOps == NoArgOps \cup TxOps \cup {"get_blocks"}
Ops == GetOps \cup {"post_request_hex"}

\* Status codes the transport may report (Response.status_code is an i32).
\* 65940 = 65536 + 404 and 65965 = 65536 + 429 are statuses no u16 holds.
Statuses == {200, 299, 300, 404, 429, 500, 503, 65940, 65965}

\* Response bodies: empty, a byte that is no UTF-8, the two UTF-8 bytes of
\* an e with acute accent, "2a", "[]", "[7]", "[ 7]", "[12,2]", "7",
\* "123456" and "4294967296" (= 2^32).
Bodies == { <<>>, <<255>>, <<195, 169>>, <<50, 97>>, <<91, 93>>, <<91, 55, 93>>,
            <<91, 32, 55, 93>>, <<91, 49, 50, 44, 50, 93>>, <<55>>,
            <<49, 50, 51, 52, 53, 54>>, <<52, 50, 57, 52, 57, 54, 55, 50, 57, 54>> }

\* Header maps a client may be configured with, as sets of <<key, value>>.
HeaderMaps == { {}, {<<"auth", "tok">>, <<"agent", "bdk">>} }

\* Values broadcast by the write path (the one-byte consensus value).
TxValues == {42, 171}

\* Transaction ids asked for.
Txids == {1, 2}

\* The height: Option<u32> get_blocks is called with: <<>> is None and <<h>>
\* is Some(h).
Heights == { <<>>, <<5>> }

VARIABLES
    url,          \* AsyncClient.url
    max_retries,  \* AsyncClient.max_retries
    headers,      \* AsyncClient.headers
    pc,           \* per call: "idle", "send" (in request.send().await),
                  \*           "sleep" (in S::sleep(delay).await), "done"
    op,           \* per call: the decoder or endpoint entered
    arg,          \* per call: <<>>, or <<x>> for the txid, height or value given
    attempts,     \* per call: get_with_retry's local attempts
    delay,        \* per call: get_with_retry's local delay, in milliseconds
    requests,     \* per call: the requests sent so far, in order
    sleeps,       \* per call: the durations handed to S::sleep so far, in order
    received,     \* per call: the status codes received so far, in order
    raw,          \* per call: what the transport step of the call ended with
    result        \* per call: what the call returned

vars == <<url, max_retries, headers, pc, op, arg, attempts, delay, requests, sleeps,
          received, raw, result>>

config == <<url, max_retries, headers>>

\* ---------------------------------------------------------------- results

\* Result<_, Error> values.  val is always a sequence of numbers.
Ok(v) == [kind |-> "Ok", status |-> 0, val |-> v]
Some(v) == [kind |-> "Some", status |-> 0, val |-> v]
None == [kind |-> "None", status |-> 0, val |-> <<>>]
Err(k) == [kind |-> k, status |-> 0, val |-> <<>>]
HttpResponse(s, m) == [kind |-> "HttpResponse", status |-> s, val |-> m]
NoResult == [kind |-> "pending", status |-> 0, val |-> <<>>]

TransactionNotFound(txid) == [kind |-> "TransactionNotFound", status |-> 0, val |-> <<txid>>]

ErrorKinds == {"AsyncMinreq", "HttpResponse", "InvalidResponse", "BitcoinEncoding",
               "HexToBytes", "Json", "Parsing", "TransactionNotFound"}

\* Result<Response, Error> of the transport step.
Resp(s, b) == [kind |-> "Resp", status_code |-> s, body |-> b]
SendErr == [kind |-> "AsyncMinreq", status_code |-> 0, body |-> <<>>]
NoRaw == [kind |-> "pending", status_code |-> 0, body |-> <<>>]

\* ------------------------------------------------- codecs (collaborators)

\* `n as u16` of an i32: the low 16 bits.
AsU16(n) == n % 65536

\* The length of the UTF-8 sequence a byte starts; 0 when it starts none.
Utf8Width(b) ==
    IF b < 128 THEN 1
    ELSE IF b \in 194..223 THEN 2
    ELSE IF b \in 224..239 THEN 3
    ELSE IF b \in 240..244 THEN 4
    ELSE 0

\* core::str::from_utf8 as a test: the bytes are well-formed UTF-8 (no
\* overlong form, no surrogate, nothing above U+10FFFF).
RECURSIVE from_utf8(_)
from_utf8(bytes) ==
    IF Len(bytes) = 0 THEN TRUE
    ELSE LET w == Utf8Width(bytes[1])
         IN IF w = 0 \/ Len(bytes) < w THEN FALSE
            ELSE /\ \A i \in 2..w : bytes[i] \in 128..191
                 /\ bytes[1] = 224 => bytes[2] >= 160
                 /\ bytes[1] = 237 => bytes[2] <= 159
                 /\ bytes[1] = 240 => bytes[2] >= 144
                 /\ bytes[1] = 244 => bytes[2] <= 143
                 /\ from_utf8(SubSeq(bytes, w + 1, Len(bytes)))

\* Response::as_str: the body as text, or an error when it is no UTF-8.
as_str(body) ==
    IF from_utf8(body)
    THEN [ok |-> TRUE, text |-> body]
    ELSE [ok |-> FALSE, text |-> <<>>]

IsHexDigit(ch) == (ch \in 48..57) \/ (ch \in 97..102) \/ (ch \in 65..70)

HexVal(ch) ==
    IF ch \in 48..57 THEN ch - 48
    ELSE IF ch \in 97..102 THEN ch - 87
    ELSE ch - 55

\* Vec::<u8>::from_hex: odd length or a non-hex character is an error.
from_hex(text) ==
    IF Len(text) % 2 = 1 \/ \E i \in 1..Len(text) : ~IsHexDigit(text[i])
    THEN [ok |-> FALSE, bytes |-> <<>>]
    ELSE [ok |-> TRUE,
          bytes |-> [i \in 1..(Len(text) \div 2) |->
                        16 * HexVal(text[2 * i - 1]) + HexVal(text[2 * i])]]

HexChar(n) == IF n < 10 THEN 48 + n ELSE 87 + n

\* DisplayHex::to_lower_hex_string.
to_lower_hex_string(bytes) ==
    [i \in 1..(2 * Len(bytes)) |->
        IF i % 2 = 1 THEN HexChar(bytes[(i + 1) \div 2] \div 16)
        ELSE HexChar(bytes[i \div 2] % 16)]

\* consensus::serialize of the one-byte target.
serialize(v) == <<v>>

\* consensus::deserialize of the one-byte target: exactly one byte, all of
\* the input consumed.
deserialize(bytes) ==
    IF Len(bytes) = 1 THEN Ok(<<bytes[1]>>) ELSE Err("BitcoinEncoding")

\* The decimal digits of 2^32 - 1.
U32MaxDigits == <<52, 50, 57, 52, 57, 54, 55, 50, 57, 53>>

\* Digits without their leading zeros.
RECURSIVE StripZeros(_)
StripZeros(d) == IF Len(d) > 0 /\ d[1] = 48 THEN StripZeros(Tail(d)) ELSE d

\* Whether the digit string a denotes a larger number than b, both without
\* leading zeros.
DigitsGreater(a, b) ==
    \/ Len(a) > Len(b)
    \/ /\ Len(a) = Len(b)
       /\ \E i \in 1..Len(a) : a[i] > b[i] /\ \A j \in 1..(i - 1) : a[j] = b[j]

\* The number a digit string denotes.
RECURSIVE DecValue(_)
DecValue(d) ==
    IF Len(d) = 0 THEN 0 ELSE 10 * DecValue(SubSeq(d, 1, Len(d) - 1)) + (d[Len(d)] - 48)

\* JSON whitespace: space, tab, line feed, carriage return.
IsJsonWs(ch) == ch \in {32, 9, 10, 13}

\* The length of the run of decimal digits text starts with.
DigitRun(text) ==
    CHOOSE n \in 1..Len(text) :
        /\ \A i \in 1..n : text[i] \in 48..57
        /\ n = Len(text) \/ text[n + 1] \notin 48..57

\* The tokens of a JSON text of brackets, commas and unsigned integers,
\* whitespace skipped; any other character ends the tokens with "bad".
RECURSIVE json_tokens(_)
json_tokens(text) ==
    IF Len(text) = 0 THEN <<>>
    ELSE IF IsJsonWs(text[1]) THEN json_tokens(Tail(text))
    ELSE IF text[1] \in 48..57
    THEN <<[t |-> "num", d |-> SubSeq(text, 1, DigitRun(text))]>>
            \o json_tokens(SubSeq(text, DigitRun(text) + 1, Len(text)))
    ELSE IF text[1] \in {91, 93, 44}
    THEN <<[t |-> "punct", d |-> <<text[1]>>]>> \o json_tokens(Tail(text))
    ELSE <<[t |-> "bad", d |-> <<>>]>>

\* A JSON number that is a u8: no leading zero, at most 255.
IsJsonU8(tok) ==
    /\ tok.t = "num"
    /\ Len(tok.d) <= 3
    /\ Len(tok.d) > 1 => tok.d[1] # 48
    /\ DecValue(tok.d) <= 255

\* serde_json::from_str of the list target Vec<u8>: whitespace, '[', numbers
\* separated by commas, ']', whitespace; anything else is an error.
json_from_str(text) ==
    LET toks == json_tokens(text)
        n == Len(toks)
        IsPunct(k, ch) == toks[k].t = "punct" /\ toks[k].d = <<ch>>
    IN IF n < 2 THEN Err("Json")
       ELSE IF ~IsPunct(1, 91) \/ ~IsPunct(n, 93) THEN Err("Json")
       ELSE IF n = 2 THEN Ok(<<>>)
       ELSE IF n % 2 = 0 THEN Err("Json")
       ELSE IF \E k \in 2..(n - 1) :
                   IF k % 2 = 0 THEN ~IsJsonU8(toks[k]) ELSE ~IsPunct(k, 44)
       THEN Err("Json")
       ELSE Ok([k \in 1..((n - 1) \div 2) |-> DecValue(toks[2 * k].d)])

\* u32::from_str: an optional '+', then one or more decimal digits, the value
\* at most 2^32 - 1; anything else is a ParseIntError.
u32_from_str(text) ==
    LET d == IF Len(text) > 0 /\ text[1] = 43 THEN Tail(text) ELSE text
    IN IF Len(d) = 0 \/ \E i \in 1..Len(d) : d[i] \notin 48..57 THEN Err("Parsing")
       ELSE IF DigitsGreater(StripZeros(d), U32MaxDigits) THEN Err("Parsing")
       ELSE Ok(<<DecValue(StripZeros(d))>>)

\* ------------------------------------------------------ response decoders
\* Each takes r, what get_with_retry (or request.send() on the write path)
\* ended with: a response or the transport error.

\* The error of `if response.status_code > 299 { return Err(..) }`.
http_error(response) ==
    IF as_str(response.body).ok
    THEN HttpResponse(AsU16(response.status_code), as_str(response.body).text)
    ELSE Err("InvalidResponse")

get_response(r) ==
    IF r.kind = "AsyncMinreq" THEN Err("AsyncMinreq")
    ELSE IF r.status_code > 299 THEN http_error(r)
    ELSE deserialize(r.body)

get_opt_response(r) ==
    IF get_response(r).kind = "Ok" THEN Some(get_response(r).val)
    ELSE IF get_response(r).kind = "HttpResponse" /\ get_response(r).status = 404 THEN None
    ELSE get_response(r)

get_response_json(r) ==
    IF r.kind = "AsyncMinreq" THEN Err("AsyncMinreq")
    ELSE IF r.status_code > 299 THEN http_error(r)
    ELSE IF ~as_str(r.body).ok THEN Err("InvalidResponse")
    ELSE json_from_str(as_str(r.body).text)

\* Mutant: every error of the base decoder becomes an absent result.
get_opt_response_json_any_error(r) ==
    IF get_response_json(r).kind = "Ok" THEN Some(get_response_json(r).val) ELSE None

get_opt_response_json(r) ==
    IF get_response_json(r).kind = "Ok" THEN Some(get_response_json(r).val)
    ELSE IF get_response_json(r).kind = "HttpResponse" /\ get_response_json(r).status = 404
    THEN None
    ELSE get_response_json(r)

\* Mutant: a body that is no text is decoded as an empty text.
get_response_hex_lossy(r) ==
    IF r.kind = "AsyncMinreq" THEN Err("AsyncMinreq")
    ELSE IF r.status_code > 299 THEN http_error(r)
    ELSE IF ~from_hex(as_str(r.body).text).ok THEN Err("HexToBytes")
    ELSE deserialize(from_hex(as_str(r.body).text).bytes)

get_response_hex(r) ==
    IF r.kind = "AsyncMinreq" THEN Err("AsyncMinreq")
    ELSE IF r.status_code > 299 THEN http_error(r)
    ELSE IF ~as_str(r.body).ok THEN Err("InvalidResponse")
    ELSE IF ~from_hex(as_str(r.body).text).ok THEN Err("HexToBytes")
    ELSE deserialize(from_hex(as_str(r.body).text).bytes)

get_opt_response_hex(r) ==
    IF get_response_hex(r).kind = "Ok" THEN Some(get_response_hex(r).val)
    ELSE IF get_response_hex(r).kind = "HttpResponse" /\ get_response_hex(r).status = 404
    THEN None
    ELSE get_response_hex(r)

get_response_text(r) ==
    IF r.kind = "AsyncMinreq" THEN Err("AsyncMinreq")
    ELSE IF r.status_code > 299 THEN http_error(r)
    ELSE IF ~as_str(r.body).ok THEN Err("InvalidResponse")
    ELSE Ok(as_str(r.body).text)

\* Mutant: every HttpResponse error becomes an absent result.
get_opt_response_text_any_status(r) ==
    IF get_response_text(r).kind = "Ok" THEN Some(get_response_text(r).val)
    ELSE IF get_response_text(r).kind = "HttpResponse" THEN None
    ELSE get_response_text(r)

get_opt_response_text(r) ==
    IF get_response_text(r).kind = "Ok" THEN Some(get_response_text(r).val)
    ELSE IF get_response_text(r).kind = "HttpResponse" /\ get_response_text(r).status = 404
    THEN None
    ELSE get_response_text(r)

\* post_request_hex from `request.send().await.map_err(..)?` on.
post_request_hex(r) ==
    IF r.kind = "AsyncMinreq" THEN Err("AsyncMinreq")
    ELSE IF r.status_code > 299 THEN http_error(r)
    ELSE Ok(<<>>)

\* Mutant: the emptiness check is missing.
get_blocks_unchecked(r) == get_response_json(r)

get_blocks(r) ==
    IF get_response_json(r).kind # "Ok" THEN get_response_json(r)
    ELSE IF get_response_json(r).val = <<>> THEN Err("InvalidResponse")
    ELSE Ok(get_response_json(r).val)

\* Mutant: a text that is no u32 becomes the default height.
get_height_or_default(r) ==
    IF get_response_text(r).kind # "Ok" THEN get_response_text(r)
    ELSE IF u32_from_str(get_response_text(r).val).kind # "Ok" THEN Ok(<<0>>)
    ELSE u32_from_str(get_response_text(r).val)

\* get_height: get_response_text, then u32::from_str on the text.
get_height(r) ==
    IF get_response_text(r).kind # "Ok" THEN get_response_text(r)
    ELSE u32_from_str(get_response_text(r).val)

get_tx(r) == get_opt_response(r)

\* Mutant: every failure of get_tx is reported as a missing transaction.
get_tx_no_opt_any_failure(r, txid) ==
    IF get_tx(r).kind = "Some" THEN Ok(get_tx(r).val) ELSE TransactionNotFound(txid)

\* get_tx_no_opt for txid, on what its get_tx returned.
get_tx_no_opt(r, txid) ==
    IF get_tx(r).kind = "Some" THEN Ok(get_tx(r).val)
    ELSE IF get_tx(r).kind = "None" THEN TransactionNotFound(txid)
    ELSE get_tx(r)

\* The base decoder under each operation.
BaseDecode(o, r) ==
    CASE o \in {"get_response", "get_opt_response", "get_tx", "get_tx_no_opt"} ->
            get_response(r)
      [] o \in {"get_response_hex", "get_opt_response_hex"} -> get_response_hex(r)
      [] o \in {"get_response_json", "get_opt_response_json", "get_blocks"} ->
            get_response_json(r)
      [] o \in {"get_response_text", "get_opt_response_text", "get_height"} ->
            get_response_text(r)
      [] o = "post_request_hex" -> post_request_hex(r)

\* What operation o, called with argument a, returns once its transport
\* step ended with r.
Decode(o, r, a) ==
    CASE o = "get_response" -> get_response(r)
      [] o = "get_opt_response" -> get_opt_response(r)
      [] o = "get_response_json" -> get_response_json(r)
      [] o = "get_opt_response_json" -> get_opt_response_json(r)
      [] o = "get_response_hex" -> get_response_hex(r)
      [] o = "get_opt_response_hex" -> get_opt_response_hex(r)
      [] o = "get_response_text" -> get_response_text(r)
      [] o = "get_opt_response_text" -> get_opt_response_text(r)
      [] o = "get_blocks" -> get_blocks(r)
      [] o = "post_request_hex" -> post_request_hex(r)
      [] o = "get_height" -> get_height(r)
      [] o = "get_tx" -> get_tx(r)
      [] o = "get_tx_no_opt" -> get_tx_no_opt(r, a[1])

\* ----------------------------------------------------- building a request

\* Request::new(method, url), and with_body for the write path.
Request_new(method, u, b) == [method |-> method, url |-> u, headers |-> {}, body |-> b]

\* Request::with_header: the header map of a request holds one value per key.
with_header(request, key, value) ==
    [request EXCEPT !.headers = {h \in @ : h[1] # key} \cup {<<key, value>>}]

\* `for (key, value) in &self.headers { request = request.with_header(key, value); }`
\* over the entries hs still to visit.
RECURSIVE apply_headers(_, _)
apply_headers(request, hs) ==
    IF hs = {} THEN request
    ELSE LET h == CHOOSE x \in hs : TRUE
         IN apply_headers(with_header(request, h[1], h[2]), hs \ {h})

\* The path each operation formats into its url.
PathOf(o, a) ==
    CASE o = "get_blocks" ->
            IF a = <<>> THEN "/blocks" ELSE "/blocks/" \o ToString(a[1])
      [] o = "post_request_hex" -> "/tx"
      [] o = "get_height" -> "/blocks/tip/height"
      [] o \in TxOps -> "/tx/" \o ToString(a[1]) \o "/raw"
      [] OTHER -> "/path"

\* Mutant: the header loop stops after the first entry.
get_request_one_header(u) ==
    IF headers = {} THEN Request_new("GET", u, <<>>)
    ELSE LET h == CHOOSE x \in headers : TRUE
         IN with_header(Request_new("GET", u, <<>>), h[1], h[2])

\* The request of one attempt of get_with_retry.
get_request(u) == apply_headers(Request_new("GET", u, <<>>), headers)

\* The request of post_request_hex for value v.
post_request(u, v) ==
    apply_headers(Request_new("POST", u, to_lower_hex_string(serialize(v))), headers)

\* ----------------------------------------------------------- retry policy

is_status_retryable(status) == AsU16(status) \in RETRYABLE_ERROR_CODES

\* Mutant: one retry too many.
should_retry_off_by_one(att, status) == att <= max_retries /\ is_status_retryable(status)

\* Mutant: a retryable status is retried once even without a retry budget.
should_retry_at_least_once(att, status) ==
    (att < max_retries \/ att = 0) /\ is_status_retryable(status)

\* The guard of the first match arm of get_with_retry.
should_retry(att, status) == att < max_retries /\ is_status_retryable(status)

\* Mutant: the attempt is not counted.
next_attempts_stuck(att) == att

\* `attempts += 1`
next_attempts(att) == att + 1

\* Mutant: the delay is never doubled.
next_delay_constant(d) == d

\* `delay *= 2`
next_delay(d) == d * 2

\* ------------------------------------------------------------------ state

Init ==
    /\ url = "http://esplora"
    /\ max_retries \in 0..MaxRetries
    /\ headers \in HeaderMaps
    /\ pc = [c \in Calls |-> "idle"]
    /\ op = [c \in Calls |-> "none"]
    /\ arg = [c \in Calls |-> <<>>]
    /\ attempts = [c \in Calls |-> 0]
    /\ delay = [c \in Calls |-> 0]
    /\ requests = [c \in Calls |-> <<>>]
    /\ sleeps = [c \in Calls |-> <<>>]
    /\ received = [c \in Calls |-> <<>>]
    /\ raw = [c \in Calls |-> NoRaw]
    /\ result = [c \in Calls |-> NoResult]

\* Mutant: attempts and delay live in the client, so a call starts from what
\* the other call has reached.
Call_shared_retry_state(c, o) ==
    /\ pc[c] = "idle"
    /\ o \in NoArgOps
    /\ op' = [op EXCEPT ![c] = o]
    /\ arg' = [arg EXCEPT ![c] = <<>>]
    /\ LET d == CHOOSE x \in Calls : x # c
       IN /\ attempts' = [attempts EXCEPT ![c] = attempts[d]]
          /\ delay' = [delay EXCEPT ![c] =
                          IF delay[d] = 0 THEN BASE_BACKOFF_MILLIS ELSE delay[d]]
    /\ requests' = [requests EXCEPT ![c] = <<get_request(url \o PathOf(o, <<>>))>>]
    /\ sleeps' = [sleeps EXCEPT ![c] = <<>>]
    /\ received' = [received EXCEPT ![c] = <<>>]
    /\ raw' = [raw EXCEPT ![c] = NoRaw]
    /\ result' = [result EXCEPT ![c] = NoResult]
    /\ pc' = [pc EXCEPT ![c] = "send"]
    /\ UNCHANGED config

\* A read operation is called: it formats its url and enters get_with_retry,
\* which sets delay and attempts, builds the first request and awaits send().
Call(c, o) ==
    /\ pc[c] = "idle"
    /\ o \in NoArgOps
    /\ op' = [op EXCEPT ![c] = o]
    /\ arg' = [arg EXCEPT ![c] = <<>>]
    /\ attempts' = [attempts EXCEPT ![c] = 0]
    /\ delay' = [delay EXCEPT ![c] = BASE_BACKOFF_MILLIS]
    /\ requests' = [requests EXCEPT ![c] = <<get_request(url \o PathOf(o, <<>>))>>]
    /\ sleeps' = [sleeps EXCEPT ![c] = <<>>]
    /\ received' = [received EXCEPT ![c] = <<>>]
    /\ raw' = [raw EXCEPT ![c] = NoRaw]
    /\ result' = [result EXCEPT ![c] = NoResult]
    /\ pc' = [pc EXCEPT ![c] = "send"]
    /\ UNCHANGED config

\* get_tx or get_tx_no_opt is called for txid t: the same entry into
\* get_with_retry, through get_opt_response and get_response.
CallTx(c, o, t) ==
    /\ pc[c] = "idle"
    /\ o \in TxOps
    /\ op' = [op EXCEPT ![c] = o]
    /\ arg' = [arg EXCEPT ![c] = <<t>>]
    /\ attempts' = [attempts EXCEPT ![c] = 0]
    /\ delay' = [delay EXCEPT ![c] = BASE_BACKOFF_MILLIS]
    /\ requests' = [requests EXCEPT ![c] = <<get_request(url \o PathOf(o, <<t>>))>>]
    /\ sleeps' = [sleeps EXCEPT ![c] = <<>>]
    /\ received' = [received EXCEPT ![c] = <<>>]
    /\ raw' = [raw EXCEPT ![c] = NoRaw]
    /\ result' = [result EXCEPT ![c] = NoResult]
    /\ pc' = [pc EXCEPT ![c] = "send"]
    /\ UNCHANGED config

\* get_blocks is called with height: it formats "/blocks" or
\* "/blocks/{height}" and enters get_with_retry through get_response_json.
CallBlocks(c, height) ==
    /\ pc[c] = "idle"
    /\ op' = [op EXCEPT ![c] = "get_blocks"]
    /\ arg' = [arg EXCEPT ![c] = height]
    /\ attempts' = [attempts EXCEPT ![c] = 0]
    /\ delay' = [delay EXCEPT ![c] = BASE_BACKOFF_MILLIS]
    /\ requests' = [requests EXCEPT ![c] = <<get_request(url \o PathOf("get_blocks", height))>>]
    /\ sleeps' = [sleeps EXCEPT ![c] = <<>>]
    /\ received' = [received EXCEPT ![c] = <<>>]
    /\ raw' = [raw EXCEPT ![c] = NoRaw]
    /\ result' = [result EXCEPT ![c] = NoResult]
    /\ pc' = [pc EXCEPT ![c] = "send"]
    /\ UNCHANGED config

\* broadcast: post_request_hex builds its one request and awaits send().
Broadcast(c, v) ==
    /\ pc[c] = "idle"
    /\ op' = [op EXCEPT ![c] = "post_request_hex"]
    /\ arg' = [arg EXCEPT ![c] = <<v>>]
    /\ attempts' = [attempts EXCEPT ![c] = 0]
    /\ delay' = [delay EXCEPT ![c] = 0]
    /\ requests' = [requests EXCEPT ![c] =
                       <<post_request(url \o PathOf("post_request_hex", <<v>>), v)>>]
    /\ sleeps' = [sleeps EXCEPT ![c] = <<>>]
    /\ received' = [received EXCEPT ![c] = <<>>]
    /\ raw' = [raw EXCEPT ![c] = NoRaw]
    /\ result' = [result EXCEPT ![c] = NoResult]
    /\ pc' = [pc EXCEPT ![c] = "send"]
    /\ UNCHANGED config

\* Mutant: the suspension blocks the executor, so no response is delivered
\* to any call while some call sleeps.
Respond_blocking_sleep(c, status, body) ==
    /\ pc[c] = "send"
    /\ \A d \in Calls : pc[d] # "sleep"
    /\ op[c] \in GetOps
    /\ received' = [received EXCEPT ![c] = Append(@, status)]
    /\ IF should_retry(attempts[c], status)
       THEN /\ sleeps' = [sleeps EXCEPT ![c] = Append(@, delay[c])]
            /\ pc' = [pc EXCEPT ![c] = "sleep"]
            /\ UNCHANGED <<raw, result>>
       ELSE /\ raw' = [raw EXCEPT ![c] = Resp(status, body)]
            /\ result' = [result EXCEPT ![c] = Decode(op[c], Resp(status, body), arg[c])]
            /\ pc' = [pc EXCEPT ![c] = "done"]
            /\ UNCHANGED sleeps
    /\ UNCHANGED <<config, op, arg, attempts, delay, requests>>

\* Mutant: a retryable status is retried only when the body is text.
Respond_body_aware(c, status, body) ==
    /\ pc[c] = "send"
    /\ op[c] \in GetOps
    /\ received' = [received EXCEPT ![c] = Append(@, status)]
    /\ IF should_retry(attempts[c], status) /\ as_str(body).ok
       THEN /\ sleeps' = [sleeps EXCEPT ![c] = Append(@, delay[c])]
            /\ pc' = [pc EXCEPT ![c] = "sleep"]
            /\ UNCHANGED <<raw, result>>
       ELSE /\ raw' = [raw EXCEPT ![c] = Resp(status, body)]
            /\ result' = [result EXCEPT ![c] = Decode(op[c], Resp(status, body), arg[c])]
            /\ pc' = [pc EXCEPT ![c] = "done"]
            /\ UNCHANGED sleeps
    /\ UNCHANGED <<config, op, arg, attempts, delay, requests>>

\* request.send().await yields a response inside get_with_retry: either the
\* first match arm is taken and the call enters S::sleep(delay), or the
\* response is returned and the operation decodes it and returns.
Respond(c, status, body) ==
    /\ pc[c] = "send"
    /\ op[c] \in GetOps
    /\ received' = [received EXCEPT ![c] = Append(@, status)]
    /\ IF should_retry(attempts[c], status)
       THEN /\ sleeps' = [sleeps EXCEPT ![c] = Append(@, delay[c])]
            /\ pc' = [pc EXCEPT ![c] = "sleep"]
            /\ UNCHANGED <<raw, result>>
       ELSE /\ raw' = [raw EXCEPT ![c] = Resp(status, body)]
            /\ result' = [result EXCEPT ![c] = Decode(op[c], Resp(status, body), arg[c])]
            /\ pc' = [pc EXCEPT ![c] = "done"]
            /\ UNCHANGED sleeps
    /\ UNCHANGED <<config, op, arg, attempts, delay, requests>>

\* Mutant: the write path goes through the retry loop.
PostRespond_retried(c, status, body) ==
    /\ pc[c] = "send"
    /\ op[c] = "post_request_hex"
    /\ received' = [received EXCEPT ![c] = Append(@, status)]
    /\ IF should_retry(attempts[c], status)
       THEN /\ sleeps' = [sleeps EXCEPT ![c] = Append(@, delay[c])]
            /\ pc' = [pc EXCEPT ![c] = "sleep"]
            /\ UNCHANGED <<raw, result>>
       ELSE /\ raw' = [raw EXCEPT ![c] = Resp(status, body)]
            /\ result' = [result EXCEPT ![c] = Decode(op[c], Resp(status, body), arg[c])]
            /\ pc' = [pc EXCEPT ![c] = "done"]
            /\ UNCHANGED sleeps
    /\ UNCHANGED <<config, op, arg, attempts, delay, requests>>

\* request.send().await yields a response inside post_request_hex.
PostRespond(c, status, body) ==
    /\ pc[c] = "send"
    /\ op[c] = "post_request_hex"
    /\ received' = [received EXCEPT ![c] = Append(@, status)]
    /\ raw' = [raw EXCEPT ![c] = Resp(status, body)]
    /\ result' = [result EXCEPT ![c] = Decode(op[c], Resp(status, body), arg[c])]
    /\ pc' = [pc EXCEPT ![c] = "done"]
    /\ UNCHANGED <<config, op, arg, attempts, delay, requests, sleeps>>

\* Mutant: a transport failure is treated like a retryable response.
SendFailsRetried(c) ==
    /\ pc[c] = "send"
    /\ IF op[c] \in GetOps /\ attempts[c] < max_retries
       THEN /\ sleeps' = [sleeps EXCEPT ![c] = Append(@, delay[c])]
            /\ pc' = [pc EXCEPT ![c] = "sleep"]
            /\ UNCHANGED <<raw, result>>
       ELSE /\ raw' = [raw EXCEPT ![c] = SendErr]
            /\ result' = [result EXCEPT ![c] = Decode(op[c], SendErr, arg[c])]
            /\ pc' = [pc EXCEPT ![c] = "done"]
            /\ UNCHANGED sleeps
    /\ UNCHANGED <<config, op, arg, attempts, delay, requests, received>>

\* request.send().await fails in the transport: `?` returns the error.
SendFails(c) ==
    /\ pc[c] = "send"
    /\ raw' = [raw EXCEPT ![c] = SendErr]
    /\ result' = [result EXCEPT ![c] = Decode(op[c], SendErr, arg[c])]
    /\ pc' = [pc EXCEPT ![c] = "done"]
    /\ UNCHANGED <<config, op, arg, attempts, delay, requests, sleeps, received>>

\* S::sleep(delay).await completes: attempts and delay advance, the loop
\* builds the next request and awaits send().  The bound on the requests
\* keeps the state space finite; the code never meets it, since a call
\* sleeps only while attempts < max_retries <= MaxRetries.
Wake(c) ==
    /\ pc[c] = "sleep"
    /\ Len(requests[c]) <= MaxRetries
    /\ attempts' = [attempts EXCEPT ![c] = next_attempts(@)]
    /\ delay' = [delay EXCEPT ![c] = next_delay(@)]
    /\ requests' = [requests EXCEPT ![c] = Append(@, get_request(url \o PathOf(op[c], arg[c])))]
    /\ pc' = [pc EXCEPT ![c] = "send"]
    /\ UNCHANGED <<config, op, arg, sleeps, received, raw, result>>

\* The caller takes the result; the call's locals are gone.
Return(c) ==
    /\ pc[c] = "done"
    /\ pc' = [pc EXCEPT ![c] = "idle"]
    /\ op' = [op EXCEPT ![c] = "none"]
    /\ arg' = [arg EXCEPT ![c] = <<>>]
    /\ attempts' = [attempts EXCEPT ![c] = 0]
    /\ delay' = [delay EXCEPT ![c] = 0]
    /\ requests' = [requests EXCEPT ![c] = <<>>]
    /\ sleeps' = [sleeps EXCEPT ![c] = <<>>]
    /\ received' = [received EXCEPT ![c] = <<>>]
    /\ raw' = [raw EXCEPT ![c] = NoRaw]
    /\ result' = [result EXCEPT ![c] = NoResult]
    /\ UNCHANGED config

Step(c) ==
    \/ \E o \in NoArgOps : Call(c, o)
    \/ \E o \in TxOps, t \in Txids : CallTx(c, o, t)
    \/ \E height \in Heights : CallBlocks(c, height)
    \/ \E v \in TxValues : Broadcast(c, v)
    \/ \E s \in Statuses, b \in Bodies : Respond(c, s, b)
    \/ \E s \in Statuses, b \in Bodies : PostRespond(c, s, b)
    \/ SendFails(c)
    \/ Wake(c)
    \/ Return(c)

\* One call at a time on the client.
Next == \E c \in SeqCalls : Step(c)

Spec == Init /\ [][Next]_vars

\* A transport dispatch of call c completes, with a response or an error.
Transport(c) ==
    \/ \E s \in Statuses, b \in Bodies : Respond(c, s, b)
    \/ \E s \in Statuses, b \in Bodies : PostRespond(c, s, b)
    \/ SendFails(c)

\* One call at a time, every transport dispatch and every suspension of
\* which completes.
LiveSpec ==
    /\ Init
    /\ [][Next]_vars
    /\ \A c \in SeqCalls : WF_vars(Transport(c)) /\ WF_vars(Wake(c))

\* Inputs of the calls that run concurrently.
ConcOps == {"get_response_text", "get_opt_response_text"}
ConcStatuses == {200, 404, 429, 500}
ConcBodies == { <<55>>, <<255>> }

StepConc(c) ==
    \/ \E o \in ConcOps : Call(c, o)
    \/ \E s \in ConcStatuses, b \in ConcBodies : Respond(c, s, b)
    \/ SendFails(c)
    \/ Wake(c)
    \/ Return(c)

\* Two calls in flight on the one client, interleaved at their awaits.
NextConc == \E c \in Calls : StepConc(c)

SpecConc == Init /\ [][NextConc]_vars

\* ----------------------------------------------------------------- claims

Last(s) == s[Len(s)]

\* The response of a call that ended with one.
Returned(c) == pc[c] = "done" /\ raw[c].kind = "Resp"

\* C1 as stated: in get_with_retry, a response whose status is in the
\* retryable set, received while attempts < max_retries, leads to exactly
\* one suspension and then to the next request; a response whose status is
\* not in the retryable set is returned at once, with no suspension and no
\* further request, whatever attempts is.
C1_RetryOrReturn ==
    [][\A c \in Calls :
        /\ (pc[c] = "send" /\ op[c] \in GetOps /\ Len(received'[c]) = Len(received[c]) + 1) =>
              IF Last(received'[c]) \in RETRYABLE_ERROR_CODES /\ attempts[c] < max_retries
              THEN /\ pc'[c] = "sleep"
                   /\ Len(sleeps'[c]) = Len(sleeps[c]) + 1
                   /\ requests'[c] = requests[c]
                   /\ result'[c] = NoResult
              ELSE Last(received'[c]) \notin RETRYABLE_ERROR_CODES =>
                   /\ pc'[c] = "done"
                   /\ raw'[c].kind = "Resp"
                   /\ raw'[c].status_code = Last(received'[c])
                   /\ sleeps'[c] = sleeps[c]
                   /\ requests'[c] = requests[c]
        /\ (pc[c] = "sleep" /\ pc'[c] # "sleep") =>
              /\ pc'[c] = "send"
              /\ sleeps'[c] = sleeps[c]
              /\ Len(requests'[c]) = Len(requests[c]) + 1
        /\ (pc[c] = "done" /\ pc'[c] # "done") => pc'[c] = "idle"
      ]_vars

\* C2: after max_retries retryable responses in a row the next response,
\* still retryable, is returned; a call never sends more than
\* max_retries + 1 requests nor sleeps more than max_retries times.
C2_ReturnsAfterMaxRetries ==
    \A c \in Calls :
        /\ Len(requests[c]) <= max_retries + 1
        /\ Len(sleeps[c]) <= max_retries
        /\ pc[c] = "sleep" => attempts[c] < max_retries
        /\ (op[c] \in GetOps /\ Len(received[c]) = max_retries + 1) =>
              /\ \A i \in 1..max_retries : is_status_retryable(received[c][i])
              /\ pc[c] = "done"
              /\ raw[c].kind = "Resp"
              /\ raw[c].status_code = Last(received[c])
              /\ Len(sleeps[c]) = max_retries
              /\ Len(requests[c]) = max_retries + 1

\* C2 witness: a call with max_retries >= 2 that got retryable statuses only
\* and returned the last of them.
C2_Witness ==
    \E c \in Calls :
        /\ Returned(c)
        /\ op[c] \in GetOps
        /\ max_retries >= 2
        /\ Len(received[c]) = max_retries + 1
        /\ is_status_retryable(raw[c].status_code)
        /\ \A i \in 1..Len(received[c]) : is_status_retryable(received[c][i])

\* C3: a transport failure of send() on any attempt ends the call at once
\* with the transport error: no suspension, no further request, attempts
\* unchanged (zero on the first attempt).
C3_TransportErrorIsTerminal ==
    [][\A c \in Calls :
        /\ (pc[c] = "send" /\ pc'[c] # "send" /\ received'[c] = received[c]) =>
              /\ pc'[c] = "done"
              /\ result'[c] = Err("AsyncMinreq")
              /\ sleeps'[c] = sleeps[c]
              /\ requests'[c] = requests[c]
              /\ attempts'[c] = attempts[c]
              /\ attempts'[c] = Len(sleeps[c])
        /\ (pc[c] = "done" /\ result[c].kind = "AsyncMinreq") =>
              (pc'[c] \in {"done", "idle"} /\ (pc'[c] = "done" => requests'[c] = requests[c]))
      ]_vars

\* C3 witness: a transport failure on the second attempt of a read call.
C3_Witness ==
    \E c \in Calls :
        /\ pc[c] = "done"
        /\ op[c] \in GetOps
        /\ result[c] = Err("AsyncMinreq")
        /\ Len(requests[c]) = 2
        /\ attempts[c] = 1

\* 2^n.
RECURSIVE Pow2(_)
Pow2(n) == IF n = 0 THEN 1 ELSE 2 * Pow2(n - 1)

\* C4: the n-th suspension of a call (n from 0) is requested with exactly
\* BASE_BACKOFF_MILLIS * 2^n.
C4_ExactDoubling ==
    \A c \in Calls :
        /\ \A n \in 1..Len(sleeps[c]) : sleeps[c][n] = BASE_BACKOFF_MILLIS * Pow2(n - 1)
        /\ pc[c] # "idle" /\ op[c] \in GetOps => delay[c] = BASE_BACKOFF_MILLIS * Pow2(attempts[c])

\* C4 witness: a call that has requested three suspensions.
C4_Witness == \E c \in Calls : Len(sleeps[c]) = 3 /\ sleeps[c][3] = 4 * BASE_BACKOFF_MILLIS

\* C8: every request of a call, first attempt and retries alike, carries
\* exactly the configured header map, one value per key.
C8_HeadersOnEveryAttempt ==
    \A c \in Calls : \A k \in 1..Len(requests[c]) :
        /\ requests[c][k].headers = headers
        /\ requests[c][k].headers = requests[c][1].headers
        /\ Cardinality({h[1] : h \in requests[c][k].headers}) =
              Cardinality(requests[c][k].headers)

\* C8 witness: the third attempt of a call on a client with two headers.
C8_Witness ==
    \E c \in Calls :
        /\ Len(requests[c]) = 3
        /\ Cardinality(headers) = 2
        /\ requests[c][3].headers = headers

\* C5 as stated: for every optional decoder a final response with status 404
\* yields an absent result and one with status 500 an HttpResponse error.
C5_Original ==
    \A c \in Calls : (Returned(c) /\ op[c] \in OptOps) =>
        /\ raw[c].status_code = 404 => result[c] = None
        /\ raw[c].status_code = 500 => result[c].kind = "HttpResponse"

\* C5 amended: for every optional decoder a final response with status 404
\* and a body readable as text yields an absent result, one with status 500
\* and a readable body yields an HttpResponse error with status 500 and that
\* text, and either status with an unreadable body yields InvalidResponse;
\* status 500 never yields an absent result.
C5_OptionalOn404And500 ==
    \A c \in Calls : (Returned(c) /\ op[c] \in OptOps) =>
        /\ (raw[c].status_code = 404 /\ as_str(raw[c].body).ok) => result[c] = None
        /\ (raw[c].status_code = 500 /\ as_str(raw[c].body).ok) =>
              result[c] = HttpResponse(500, raw[c].body)
        /\ (raw[c].status_code \in {404, 500} /\ ~as_str(raw[c].body).ok) =>
              result[c] = Err("InvalidResponse")
        /\ raw[c].status_code = 500 => result[c] # None

\* C5 witness: an optional text decoder whose retries ran out on status 500
\* returns the HttpResponse error.
C5_Witness ==
    \E c \in Calls :
        /\ Returned(c)
        /\ op[c] = "get_opt_response_text"
        /\ max_retries >= 1
        /\ Len(sleeps[c]) = max_retries
        /\ raw[c].status_code = 500
        /\ result[c] = HttpResponse(500, <<55>>)

\* C6 as stated: the four base decoders fail with HttpResponse carrying the
\* status and the body text when status > 299 and the body is readable, with
\* InvalidResponse when it is not readable, and never with HttpResponse when
\* status <= 299.
C6_SharedStatusCheck ==
    \A c \in Calls : (Returned(c) /\ op[c] \in BaseOps) =>
        /\ (raw[c].status_code > 299 /\ as_str(raw[c].body).ok) =>
              result[c] = HttpResponse(raw[c].status_code, raw[c].body)
        /\ (raw[c].status_code > 299 /\ ~as_str(raw[c].body).ok) =>
              result[c] = Err("InvalidResponse")
        /\ raw[c].status_code <= 299 => result[c].kind # "HttpResponse"

\* C7: an optional decoder turns exactly the HttpResponse error with status
\* 404 of its base decoder into an absent result, a success into a present
\* value, and returns every other error of the base decoder as it is.
C7_OnlyHttp404BecomesAbsent ==
    \A c \in Calls : (pc[c] = "done" /\ op[c] \in OptOps) =>
        /\ result[c].kind = "None" <=>
              (BaseDecode(op[c], raw[c]).kind = "HttpResponse"
               /\ BaseDecode(op[c], raw[c]).status = 404)
        /\ result[c].kind = "Some" <=> BaseDecode(op[c], raw[c]).kind = "Ok"
        /\ result[c].kind = "Some" => result[c].val = BaseDecode(op[c], raw[c]).val
        /\ result[c].kind \notin {"None", "Some"} => result[c] = BaseDecode(op[c], raw[c])
        /\ result[c].kind \in {"None", "Some"} \cup ErrorKinds

\* C7 witness: an optional JSON decoder passes a JSON decode error through.
C7_Witness ==
    \E c \in Calls :
        /\ Returned(c)
        /\ op[c] = "get_opt_response_json"
        /\ raw[c].status_code = 200
        /\ result[c] = Err("Json")

\* C9 as stated: get_blocks on a successful response with an empty list
\* fails with EmptyResultError and never returns an empty success.
C9_Original ==
    \A c \in Calls : (Returned(c) /\ op[c] = "get_blocks") =>
        /\ (raw[c].status_code <= 299 /\ raw[c].body = <<91, 93>>) =>
              result[c].kind = "EmptyResult"
        /\ ~(result[c].kind = "Ok" /\ result[c].val = <<>>)

\* C9 amended: get_blocks on a successful response with an empty list fails
\* with InvalidResponse and never returns an empty success.
C9_EmptyBlocksIsInvalidResponse ==
    \A c \in Calls : (Returned(c) /\ op[c] = "get_blocks") =>
        /\ (raw[c].status_code <= 299 /\ raw[c].body = <<91, 93>>) =>
              result[c] = Err("InvalidResponse")
        /\ ~(result[c].kind = "Ok" /\ result[c].val = <<>>)

\* C9 witness: get_blocks got status 200 with body "[]" and failed.
C9_Witness ==
    \E c \in Calls :
        /\ Returned(c)
        /\ op[c] = "get_blocks"
        /\ raw[c] = Resp(200, <<91, 93>>)
        /\ result[c].kind = "InvalidResponse"

\* C10 as stated: post_request_hex sends its request with the configured
\* headers, fails with HttpResponse carrying the status and the body text
\* when status > 299 (InvalidResponse when the body is not readable), and
\* for status <= 299 returns success without decoding the body.
C10_WritePath ==
    \A c \in Calls : (pc[c] # "idle" /\ op[c] = "post_request_hex") =>
        /\ Len(requests[c]) = 1
        /\ requests[c][1].method = "POST"
        /\ requests[c][1].headers = headers
        /\ Returned(c) =>
              /\ (raw[c].status_code > 299 /\ as_str(raw[c].body).ok) =>
                    result[c] = HttpResponse(raw[c].status_code, raw[c].body)
              /\ (raw[c].status_code > 299 /\ ~as_str(raw[c].body).ok) =>
                    result[c] = Err("InvalidResponse")
              /\ raw[c].status_code <= 299 => result[c] = Ok(<<>>)

\* C11: a call inside S::sleep does not block the other calls on the client:
\* whatever the other call is doing, its next step can be taken, so it can
\* be called, receive its response and return while the first one sleeps.
C11_SleepDoesNotBlock ==
    \A c \in Calls : \A d \in Calls \ {c} :
        pc[c] = "sleep" =>
            /\ pc[d] = "idle" => \A o \in ConcOps : ENABLED Call(d, o)
            /\ pc[d] = "send" =>
                  /\ \A s \in ConcStatuses, b \in ConcBodies : ENABLED Respond(d, s, b)
                  /\ ENABLED SendFails(d)
            /\ pc[d] = "sleep" => ENABLED Wake(d)
            /\ pc[d] = "done" => ENABLED Return(d)

\* C11 witness: one call is asleep before its second attempt while the other
\* has gone through a retry of its own and returned a value.
C11_Witness ==
    /\ pc["c1"] = "sleep"
    /\ Len(sleeps["c1"]) = 1
    /\ pc["c2"] = "done"
    /\ Len(sleeps["c2"]) = 1
    /\ result["c2"].kind = "Ok"

\* C12: two calls that have received the same sequence of status codes and
\* stand at the same point have sent the same number of requests and asked
\* for the same suspensions with the same delays, whatever the bodies of
\* their responses and whatever decoder waits for the response; if both
\* returned a response, they returned it at the same attempt.
C12_PayloadBlind ==
    \A c \in Calls : \A d \in Calls \ {c} :
        (op[c] \in GetOps /\ op[d] \in GetOps /\ received[c] = received[d] /\ pc[c] = pc[d]) =>
            /\ sleeps[c] = sleeps[d]
            /\ attempts[c] = attempts[d]
            /\ delay[c] = delay[d]
            /\ Len(requests[c]) = Len(requests[d])
            /\ raw[c].kind = raw[d].kind
            /\ raw[c].status_code = raw[d].status_code

\* C12 witness: two calls that got the same two status codes and returned
\* responses with different bodies after one suspension each.
C12_Witness ==
    /\ Returned("c1") /\ Returned("c2")
    /\ received["c1"] = received["c2"]
    /\ Len(received["c1"]) = 2
    /\ raw["c1"].body # raw["c2"].body
    /\ op["c1"] # op["c2"]

\* C13: provided every transport dispatch and every suspension completes, a
\* call that was started ends, whatever the responses are.
C13_Terminates ==
    \A c \in SeqCalls : (pc[c] \in {"send", "sleep"}) ~> (pc[c] = "done")

\* C13 witness: a call on a client with the largest max_retries that was
\* answered with retryable statuses only has ended.
C13_Witness ==
    \E c \in SeqCalls :
        /\ pc[c] = "done"
        /\ max_retries = MaxRetries
        /\ Len(received[c]) = MaxRetries + 1
        /\ \A i \in 1..Len(received[c]) : is_status_retryable(received[c][i])

\* C16: every call enters get_with_retry with attempts = 0 and delay =
\* BASE_BACKOFF_MILLIS and no suspension behind it, whatever the other call
\* or earlier calls did; a step of one call leaves attempts, delay and the
\* suspensions of the other call alone; and the delay a call sleeps for is
\* decided by its own attempts.
C16_RetryStateIsLocal ==
    [][\A c \in Calls :
        /\ (pc[c] = "idle" /\ pc'[c] # "idle" /\ op'[c] \in GetOps) =>
              /\ attempts'[c] = 0
              /\ delay'[c] = BASE_BACKOFF_MILLIS
              /\ sleeps'[c] = <<>>
        /\ \A d \in Calls \ {c} :
              pc'[d] # pc[d] =>
                  /\ attempts'[c] = attempts[c]
                  /\ delay'[c] = delay[c]
                  /\ sleeps'[c] = sleeps[c]
                  /\ pc'[c] = pc[c]
        /\ (pc[c] = "send" /\ pc'[c] = "sleep") =>
              /\ attempts[c] = Len(sleeps[c])
              /\ attempts[c] < max_retries
              /\ sleeps'[c] = Append(sleeps[c], BASE_BACKOFF_MILLIS * Pow2(attempts[c]))
      ]_vars

\* C16 witness: one call has used two of its retries while the other has
\* just been called and stands at its first attempt with the base delay.
C16_Witness ==
    /\ pc["c1"] = "sleep"
    /\ Len(sleeps["c1"]) = 2
    /\ pc["c2"] = "send"
    /\ attempts["c2"] = 0
    /\ delay["c2"] = BASE_BACKOFF_MILLIS
    /\ max_retries = 2


\* Whether body is a payload the base decoder under operation o accepts:
\* one consensus byte, the hex text of one, a JSON list, or any text.
WellFormed(o, body) ==
    CASE o \in {"get_response", "get_opt_response"} -> Len(body) = 1
      [] o \in {"get_response_hex", "get_opt_response_hex"} ->
            /\ Len(body) = 2
            /\ IsHexDigit(body[1]) /\ IsHexDigit(body[2])
      [] o \in {"get_response_json", "get_opt_response_json"} ->
            body \in { <<91, 93>>, <<91, 55, 93>>, <<91, 32, 55, 93>>,
                       <<91, 49, 50, 44, 50, 93>> }
      [] o \in {"get_response_text", "get_opt_response_text"} ->
            as_str(body).ok

\* C14 as stated: a decoder call ends in a value, an absent marker or a
\* typed error; an absent marker comes only from an optional variant and
\* only when the final status is 404; a base decoder never yields one; and a
\* value is returned only for a body that could be read and decoded.
C14_DecoderOutcomes ==
    \A c \in Calls : (pc[c] = "done" /\ op[c] \in BaseOps \cup OptOps) =>
        /\ result[c].kind \in {"Ok", "Some", "None"} \cup ErrorKinds
        /\ result[c].kind = "None" =>
              /\ op[c] \in OptOps
              /\ raw[c].kind = "Resp"
              /\ raw[c].status_code = 404
        /\ op[c] \in BaseOps => result[c].kind \notin {"Some", "None"}
        /\ op[c] \in OptOps => result[c].kind # "Ok"
        /\ result[c].kind \in {"Ok", "Some"} =>
              /\ raw[c].kind = "Resp"
              /\ WellFormed(op[c], raw[c].body)

\* C15 as stated: on a response with status <= 299 get_height returns the
\* number its body denotes, and fails with a Parsing error for every body
\* that is no decimal u32.
C15_Original ==
    \A c \in Calls : (Returned(c) /\ op[c] = "get_height" /\ raw[c].status_code <= 299) =>
        IF raw[c].body \in { <<55>>, <<49, 50, 51, 52, 53, 54>> }
        THEN result[c].kind = "Ok"
        ELSE result[c] = Err("Parsing")

\* C15 amended: on a response with status <= 299 get_height returns the
\* number the text body denotes (123456 for "123456"); a body that is text
\* but no decimal u32 (empty, not digits, 2^32) fails with a Parsing error; a
\* body that is no text fails with InvalidResponse; no default is returned.
C15_HeightOrParsingError ==
    \A c \in Calls : (Returned(c) /\ op[c] = "get_height" /\ raw[c].status_code <= 299) =>
        /\ raw[c].body = <<49, 50, 51, 52, 53, 54>> => result[c] = Ok(<<123456>>)
        /\ raw[c].body = <<55>> => result[c] = Ok(<<7>>)
        /\ raw[c].body \in { <<>>, <<195, 169>>, <<50, 97>>, <<91, 93>>, <<91, 55, 93>>,
                             <<91, 32, 55, 93>>, <<91, 49, 50, 44, 50, 93>>,
                             <<52, 50, 57, 52, 57, 54, 55, 50, 57, 54>> } =>
              result[c] = Err("Parsing")
        /\ raw[c].body = <<255>> => result[c] = Err("InvalidResponse")
        /\ result[c].kind = "Ok" =>
              /\ Len(raw[c].body) > 0
              /\ \A i \in 1..Len(raw[c].body) : raw[c].body[i] \in 48..57

\* C15 witness: get_height returned 123456 after one retry, and a call
\* whose body was 2^32 would be the Parsing error.
C15_Witness ==
    \E c \in Calls :
        /\ Returned(c)
        /\ op[c] = "get_height"
        /\ Len(sleeps[c]) = 1
        /\ raw[c].status_code = 200
        /\ result[c] = Ok(<<123456>>)
        /\ get_height(Resp(200, <<52, 50, 57, 52, 57, 54, 55, 50, 57, 54>>)) = Err("Parsing")

\* C17: on a response with status <= 299 the hex, JSON and text decoders
\* (and their optional variants) fail with InvalidResponse when the body is
\* no text; the binary decoder never does and decodes the bytes as they are;
\* a readable but malformed payload gives the decode error of its decoder;
\* and a value comes only from a well-formed payload.
C17_DecodeErrorsOn2xx ==
    \A c \in Calls :
        (Returned(c) /\ op[c] \in BaseOps \cup OptOps /\ raw[c].status_code <= 299) =>
            LET text == as_str(raw[c].body).ok
                binary == op[c] \in {"get_response", "get_opt_response"}
                hex == op[c] \in {"get_response_hex", "get_opt_response_hex"}
                json == op[c] \in {"get_response_json", "get_opt_response_json"}
            IN /\ (~binary /\ ~text) => result[c] = Err("InvalidResponse")
               /\ binary => result[c].kind \in {"Ok", "Some", "BitcoinEncoding"}
               /\ (binary /\ Len(raw[c].body) = 1) => result[c].val = raw[c].body
               /\ (binary /\ ~WellFormed(op[c], raw[c].body)) =>
                     result[c] = Err("BitcoinEncoding")
               /\ (hex /\ text /\ ~WellFormed(op[c], raw[c].body)) =>
                     result[c].kind \in {"HexToBytes", "BitcoinEncoding"}
               /\ (hex /\ raw[c].body = <<55>>) => result[c] = Err("HexToBytes")
               /\ (hex /\ raw[c].body = <<>>) => result[c] = Err("BitcoinEncoding")
               /\ (json /\ text /\ ~WellFormed(op[c], raw[c].body)) => result[c] = Err("Json")
               /\ result[c].kind \in {"Ok", "Some"} <=> WellFormed(op[c], raw[c].body)

\* C17 witness: the hex decoder got status 200 with a body that is no text
\* and failed with InvalidResponse, where the binary decoder takes the byte.
C17_Witness ==
    \E c \in Calls :
        /\ Returned(c)
        /\ op[c] = "get_response_hex"
        /\ raw[c] = Resp(200, <<255>>)
        /\ result[c] = Err("InvalidResponse")
        /\ get_response(raw[c]) = Ok(<<255>>)

\* C18: a call of get_with_retry has sent at most max_retries + 1 requests
\* and asked for at most max_retries suspensions; while it awaits a send and
\* when it has ended, requests = suspensions + 1; with max_retries = 0 it
\* sends one request and never suspends, whatever the status.
C18_RequestBudget ==
    \A c \in Calls : (pc[c] # "idle" /\ op[c] \in GetOps) =>
        /\ Len(requests[c]) <= max_retries + 1
        /\ Len(sleeps[c]) <= max_retries
        /\ pc[c] \in {"send", "done"} => Len(requests[c]) = Len(sleeps[c]) + 1
        /\ pc[c] = "sleep" => Len(requests[c]) = Len(sleeps[c])
        /\ Len(received[c]) <= Len(requests[c])
        /\ max_retries = 0 => (Len(requests[c]) = 1 /\ sleeps[c] = <<>>)

\* C18 witness: with max_retries = 0 a retryable status was returned after
\* one request and no suspension.
C18_Witness ==
    \E c \in Calls :
        /\ Returned(c)
        /\ op[c] \in GetOps
        /\ max_retries = 0
        /\ is_status_retryable(raw[c].status_code)
        /\ Len(requests[c]) = 1
        /\ sleeps[c] = <<>>

\* C19 as stated: post_request_hex sends one POST and never suspends, and a
\* retryable status is reported as an HttpResponse error.
C19_Original ==
    \A c \in Calls : (pc[c] # "idle" /\ op[c] = "post_request_hex") =>
        /\ Len(requests[c]) = 1
        /\ requests[c][1].method = "POST"
        /\ sleeps[c] = <<>>
        /\ (Returned(c) /\ is_status_retryable(raw[c].status_code)) =>
              result[c].kind = "HttpResponse"

\* C19 amended: post_request_hex sends one POST and neither suspends nor
\* counts an attempt, also for a retryable status with max_retries > 0; the
\* first response ends the call, a retryable status as the HttpResponse
\* error with that status and the body text when the body is text and as
\* InvalidResponse when it is not.
C19_WriteNeverRetried ==
    \A c \in Calls : (pc[c] # "idle" /\ op[c] = "post_request_hex") =>
        /\ Len(requests[c]) = 1
        /\ requests[c][1].method = "POST"
        /\ sleeps[c] = <<>>
        /\ attempts[c] = 0
        /\ pc[c] # "sleep"
        /\ Len(received[c]) <= 1
        /\ Len(received[c]) = 1 => Returned(c)
        /\ (Returned(c) /\ is_status_retryable(raw[c].status_code)) =>
              /\ raw[c].status_code = received[c][1]
              /\ result[c] = IF as_str(raw[c].body).ok
                             THEN HttpResponse(AsU16(raw[c].status_code), raw[c].body)
                             ELSE Err("InvalidResponse")
              /\ (raw[c].status_code \in RETRYABLE_ERROR_CODES /\ as_str(raw[c].body).ok) =>
                    result[c] = HttpResponse(raw[c].status_code, raw[c].body)

\* C19 witness: with max_retries > 0 a broadcast answered with 503 ended
\* with the HttpResponse error after its one request.
C19_Witness ==
    \E c \in Calls :
        /\ Returned(c)
        /\ op[c] = "post_request_hex"
        /\ max_retries > 0
        /\ raw[c].status_code = 503
        /\ result[c] = HttpResponse(503, <<55>>)
        /\ Len(requests[c]) = 1

\* C20 as stated: on a final status 404 get_tx returns an absent result and
\* get_tx_no_opt the TransactionNotFound error for the txid asked for.
C20_Original ==
    \A c \in Calls : (Returned(c) /\ raw[c].status_code = 404) =>
        /\ op[c] = "get_tx" => result[c] = None
        /\ op[c] = "get_tx_no_opt" => result[c] = TransactionNotFound(arg[c][1])

\* C20 amended: on a final status 404 with a body that is text get_tx
\* returns an absent result and get_tx_no_opt the TransactionNotFound error
\* for the txid asked for; with a body that is no text both fail with
\* InvalidResponse; get_tx_no_opt returns TransactionNotFound exactly when
\* get_tx on the same response is absent, the transaction when get_tx has
\* one, and the error of get_tx otherwise.
C20_NotFoundMapping ==
    \A c \in Calls : (pc[c] = "done" /\ op[c] \in TxOps) =>
        LET text == as_str(raw[c].body).ok
            tx == get_opt_response(raw[c])
        IN /\ (Returned(c) /\ raw[c].status_code = 404 /\ text) =>
                 result[c] = IF op[c] = "get_tx" THEN None
                             ELSE TransactionNotFound(arg[c][1])
           /\ (Returned(c) /\ raw[c].status_code = 404 /\ ~text) =>
                 result[c] = Err("InvalidResponse")
           /\ op[c] = "get_tx" => result[c] = tx
           /\ op[c] = "get_tx_no_opt" =>
                 /\ result[c].kind = "TransactionNotFound" <=> tx = None
                 /\ result[c].kind = "TransactionNotFound" => result[c].val = arg[c]
                 /\ tx.kind = "Some" => result[c] = Ok(tx.val)
                 /\ tx.kind \notin {"Some", "None"} => result[c] = tx
                 /\ raw[c].kind = "AsyncMinreq" => result[c] = Err("AsyncMinreq")
                 /\ (Returned(c) /\ raw[c].status_code = 500 /\ text) =>
                       result[c] = HttpResponse(500, raw[c].body)

\* C20 witness: get_tx_no_opt for txid 2 was answered 404 after a retry and
\* ended with TransactionNotFound(2).
C20_Witness ==
    \E c \in Calls :
        /\ Returned(c)
        /\ op[c] = "get_tx_no_opt"
        /\ arg[c] = <<2>>
        /\ Len(sleeps[c]) = 1
        /\ raw[c].status_code = 404
        /\ result[c] = TransactionNotFound(2)


====
